---------------------------- MODULE Spec2Model ----------------------------
(***************************************************************************)
(* Model of the retrieval core of the RAG prototype:                       *)
(*   - DocumentProcessor.split_into_sentences / split_text                 *)
(*     (src/src/document_processor.py), the sentence-respecting chunker;   *)
(*   - QdrantManager.extract_keywords / calculate_keyword_score /          *)
(*     hybrid_search (src/src/vector_store.py), the keyword scorer and the *)
(*     score fusion;                                                       *)
(*   - QdrantManager.upload_documents (src/src/vector_store.py), the       *)
(*     batched upload of the chunks;                                       *)
(*   - RAGChatBot.search_similar_documents / process_query                 *)
(*     (src/query_chat.py) with the Config object they read                *)
(*     (src/src/config.py), the entry of a query into the retrieval.       *)
(*                                                                         *)
(* A Python str is a sequence of characters; a character is written as a   *)
(* string naming it.  The characters outside ASCII are named:              *)
(*   "PERIOD" U+3002, "EXCL" U+FF01, "QUES" U+FF1F, "ELLIP" U+2026,        *)
(*   "SEMI" U+FF1B, "LF" line feed, "SUP2" U+00B2 (superscript two).       *)
(* A float is modelled by the exact rational it stands for (a record       *)
(* [num, den] in lowest terms); rounding is not modelled.                  *)
(***************************************************************************)
EXTENDS Integers, Sequences, FiniteSets, TLC

VARIABLES
    \* ---- DocumentProcessor (the chunker) ----
    min_chunk_size,     \* self.min_chunk_size
    max_chunk_size,     \* self.max_chunk_size
    overlap_size,       \* self.overlap_size
    text,               \* argument of split_text
    sentences,          \* local: split_into_sentences(text)
    i,                  \* local: index of the next sentence (1-based)
    chunks,             \* local, then the returned list
    current_chunk,      \* local: list of sentences
    current_size,       \* local
    overlap_buffer,     \* local: list of sentences
    pc,                 \* position inside split_text
    \* ---- QdrantManager.calculate_keyword_score ----
    score_query_keywords,   \* argument query_keywords (a list of strings)
    score_text,             \* argument text
    score_result,           \* the returned float, and whether the except branch ran
    score_pc,               \* position inside calculate_keyword_score
    \* ---- QdrantManager.hybrid_search ----
    index_points,       \* what client.search answers: the collection's points, best first
    query,              \* argument query
    top_k,              \* argument top_k
    score_threshold,    \* argument score_threshold
    keyword_weight,     \* argument keyword_weight
    vector_weight,      \* argument vector_weight
    query_keywords,     \* local
    vector_results,     \* local
    point_idx,          \* local: position of the loop over vector_results (1-based)
    hybrid_results,     \* local
    filtered_results,   \* local
    final_results,      \* local, then the returned list
    search_error,       \* whether the except branch of hybrid_search ran
    search_pc,          \* position inside hybrid_search
    \* ---- RAGChatBot.process_query / search_similar_documents ----
    chat_history,       \* self.chat_history
    pq_pc,              \* position inside process_query
    pq_query,           \* argument query
    context_docs,       \* what search_similar_documents returned
    pq_failure,         \* what raised inside search_similar_documents ("none" if nothing)
    \* ---- another invocation of hybrid_search, running beside the first ----
    other_pc,               \* its position
    other_query,            \* its argument query
    other_query_keywords,   \* its local query_keywords
    other_results,          \* its returned list
    \* ---- QdrantManager.extract_keywords ----
    ek_text,            \* argument text
    ek_keywords,        \* the returned list
    ek_pc,              \* position inside extract_keywords
    \* ---- QdrantManager.upload_documents ----
    upserted,           \* the batches client.upsert stored in the collection, in order
    up_texts,           \* argument texts
    up_vectors,         \* argument vectors
    up_batch_size,      \* argument batch_size
    up_points,          \* local points
    up_i,               \* local i of the loop over the batches (0-based)
    up_result,          \* the returned bool
    up_pc               \* position inside upload_documents

chunker_vars == <<min_chunk_size, max_chunk_size, overlap_size, text, sentences,
                  i, chunks, current_chunk, current_size, overlap_buffer, pc>>

score_vars == <<score_query_keywords, score_text, score_result, score_pc>>

search_vars == <<index_points, query, top_k, score_threshold, keyword_weight,
                 vector_weight, query_keywords, vector_results, point_idx,
                 hybrid_results, filtered_results, final_results, search_error,
                 search_pc>>

chat_vars == <<chat_history, pq_pc, pq_query, context_docs, pq_failure>>

other_vars == <<other_pc, other_query, other_query_keywords, other_results>>

extract_vars == <<ek_text, ek_keywords, ek_pc>>

upload_vars == <<upserted, up_texts, up_vectors, up_batch_size, up_points, up_i,
                 up_result, up_pc>>

vars == <<chunker_vars, score_vars, search_vars, chat_vars, other_vars,
          extract_vars, upload_vars>>

-----------------------------------------------------------------------------
(* Bounds of the model. *)

\* longest text handed to split_text
MaxTextLen == 6
\* largest config.CHUNK_SIZE tried
MaxChunkSize == 5
\* largest config.CHUNK_OVERLAP tried
MaxOverlap == 2
\* most words (tokens of the segmenter) in a text handed to the keyword scorer
MaxWords == 2
\* longest query_keywords list handed to calculate_keyword_score
MaxQueryKeywords == 2
\* most points the vector index answers with
MaxPoints == 3
\* largest top_k handed to hybrid_search
MaxTopK == 2

-----------------------------------------------------------------------------
(* Generic helpers on sequences. *)

\* all sequences over S of length 0..n
SeqsUpTo(S, n) == UNION {[1..k -> S] : k \in 0..n}

\* ' '.join(parts)
RECURSIVE JoinWithSeparator(_)
JoinWithSeparator(parts) ==
    IF parts = <<>> THEN <<>>
    ELSE IF Len(parts) = 1 THEN Head(parts)
    ELSE Head(parts) \o <<"SP">> \o JoinWithSeparator(Tail(parts))

\* ''.join(parts)
RECURSIVE Join(_)
Join(parts) ==
    IF parts = <<>> THEN <<>> ELSE Head(parts) \o Join(Tail(parts))

\* len(''.join(parts)) computed as the code accumulates it
RECURSIVE TotalLen(_)
TotalLen(parts) ==
    IF parts = <<>> THEN 0 ELSE Len(Head(parts)) + TotalLen(Tail(parts))

Smaller(a, b) == IF a <= b THEN a ELSE b

IsPrefix(p, s) == Len(p) <= Len(s) /\ SubSeq(s, 1, Len(p)) = p

\* Python's "needle in hay" on strings
Contains(hay, needle) ==
    \E k \in 0..(Len(hay) - Len(needle)) : SubSeq(hay, k + 1, k + Len(needle)) = needle

\* the orders in which a set can be iterated
Orders(S) == {f \in [1..Cardinality(S) -> S] : \A a, b \in 1..Cardinality(S) : f[a] = f[b] => a = b}

\* list(S) in one of its iteration orders
SetToSeq(S) == CHOOSE f \in Orders(S) : TRUE

-----------------------------------------------------------------------------
(* Floats as exact rationals [num, den], den > 0, in lowest terms. *)

Abs(n) == IF n < 0 THEN -n ELSE n

RECURSIVE GCD(_, _)
GCD(a, b) == IF b = 0 THEN a ELSE GCD(b, a % b)

Rat(n, d) ==
    LET g == GCD(Abs(n), d) IN [num |-> n \div g, den |-> d \div g]

Zero == Rat(0, 1)
One  == Rat(1, 1)

RAdd(a, b) == Rat(a.num * b.den + b.num * a.den, a.den * b.den)
RMul(a, b) == Rat(a.num * b.num, a.den * b.den)
RLe(a, b)  == a.num * b.den <= b.num * a.den
RLt(a, b)  == a.num * b.den < b.num * a.den
RMin(a, b) == IF RLe(a, b) THEN a ELSE b

-----------------------------------------------------------------------------
(* DocumentProcessor *)

\* the characters the texts of the model are made of
ChunkAlphabet == {"a", "PERIOD", "LF"}

ChunkTexts == SeqsUpTo(ChunkAlphabet, MaxTextLen)

sentence_endings == {"PERIOD", "EXCL", "QUES", "ELLIP", "SEMI", "LF"}

\* the for loop of split_into_sentences from character k on
RECURSIVE ScanSentences(_, _, _, _)
ScanSentences(t, k, current, acc) ==
    IF k > Len(t)
    THEN IF current # <<>> THEN Append(acc, current) ELSE acc
    ELSE LET cur == Append(current, t[k])
         IN  IF t[k] \in sentence_endings
             THEN ScanSentences(t, k + 1, <<>>, Append(acc, cur))
             ELSE ScanSentences(t, k + 1, cur, acc)

\* the sentences when the trailing part without an ending is not flushed
RECURSIVE ScanTerminated(_, _, _, _)
ScanTerminated(t, k, current, acc) ==
    IF k > Len(t) THEN acc
    ELSE LET cur == Append(current, t[k])
         IN  IF t[k] \in sentence_endings
             THEN ScanTerminated(t, k + 1, <<>>, Append(acc, cur))
             ELSE ScanTerminated(t, k + 1, cur, acc)

TerminatedSentencesOnly(t) == ScanTerminated(t, 1, <<>>, <<>>)

\* the sentences when the ending character is dropped, as str.split would
RECURSIVE ScanDropping(_, _, _, _)
ScanDropping(t, k, current, acc) ==
    IF k > Len(t)
    THEN IF current # <<>> THEN Append(acc, current) ELSE acc
    ELSE IF t[k] \in sentence_endings
         THEN ScanDropping(t, k + 1, <<>>, Append(acc, current))
         ELSE ScanDropping(t, k + 1, Append(current, t[k]), acc)

SentencesWithoutEndings(t) == ScanDropping(t, 1, <<>>, <<>>)

split_into_sentences(t) == ScanSentences(t, 1, <<>>, <<>>)

\* the closing decision with ">" for ">=" in the max_chunk_size test
ShouldSplitAboveMax(size, idx, n) ==
    IF size > max_chunk_size THEN TRUE
    ELSE IF size >= min_chunk_size /\ idx < n THEN TRUE
    ELSE FALSE

\* the closing decision without the max_chunk_size test
ShouldSplitWithoutCap(size, idx, n) ==
    IF size >= min_chunk_size /\ idx < n THEN TRUE
    ELSE FALSE

\* the closing decision when min_chunk_size also closes at the last sentence
ShouldSplitAlsoAtLast(size, idx, n) ==
    IF size >= max_chunk_size THEN TRUE
    ELSE IF size >= min_chunk_size THEN TRUE
    ELSE FALSE

\* the closing decision without the min_chunk_size test
ShouldSplitOnlyAtMax(size, idx, n) ==
    IF size >= max_chunk_size THEN TRUE
    ELSE FALSE

\* the closing decision when every sentence closes a chunk
ShouldSplitEverySentence(size, idx, n) ==
    TRUE

\* the closing decision taken after sentence idx (1-based) of n was appended
ShouldSplit(size, idx, n) ==
    IF size >= max_chunk_size THEN TRUE
    ELSE IF size >= min_chunk_size /\ idx < n THEN TRUE
    ELSE FALSE

\* the backward walk over the closed chunk, from its sentence k down
RECURSIVE CollectOverlap(_, _, _, _)
CollectOverlap(chunk, k, buf, size) ==
    IF k = 0 THEN buf
    ELSE IF size + Len(chunk[k]) <= overlap_size
         THEN CollectOverlap(chunk, k - 1, <<chunk[k]>> \o buf, size + Len(chunk[k]))
         ELSE buf

\* a character-level overlap: the trailing overlap_size characters of the chunk
TrailingCharsOverlap(chunk) ==
    LET s == Join(chunk)
        n == IF overlap_size < 0 THEN 0
             ELSE IF overlap_size > Len(s) THEN Len(s) ELSE overlap_size
    IN  IF n = 0 THEN <<>> ELSE <<SubSeq(s, Len(s) - n + 1, Len(s))>>

\* the backward walk when a sentence that does not fit is skipped instead of
\* ending the walk
RECURSIVE CollectFitting(_, _, _, _)
CollectFitting(chunk, k, buf, size) ==
    IF k = 0 THEN buf
    ELSE IF size + Len(chunk[k]) <= overlap_size
         THEN CollectFitting(chunk, k - 1, <<chunk[k]>> \o buf, size + Len(chunk[k]))
         ELSE CollectFitting(chunk, k - 1, buf, size)

OverlapWithoutBreak(chunk) == CollectFitting(chunk, Len(chunk), <<>>, 0)

\* overlap_buffer after a chunk was closed
OverlapBuffer(chunk) == CollectOverlap(chunk, Len(chunk), <<>>, 0)

\* the list returned when the last chunk is forgotten
WithoutLastChunk(cs, cur) == cs

\* "add the last chunk" after the loop
WithLastChunk(cs, cur) ==
    IF cur # <<>> THEN Append(cs, Join(cur)) ELSE cs

\* the loop of split_text over the sentences S from sentence idx on
RECURSIVE SplitSentences(_, _, _, _, _)
SplitSentences(S, idx, cs, cur, size) ==
    IF idx > Len(S) THEN WithLastChunk(cs, cur)
    ELSE LET c  == Append(cur, S[idx])
             sz == size + Len(S[idx])
         IN  IF ShouldSplit(sz, idx, Len(S)) /\ c # <<>>
             THEN SplitSentences(S, idx + 1, Append(cs, Join(c)),
                                 OverlapBuffer(c), TotalLen(OverlapBuffer(c)))
             ELSE SplitSentences(S, idx + 1, cs, c, sz)

\* split_text(t) as a whole, for the configuration of the processor
split_text(t) ==
    IF t = <<>> THEN <<>>
    ELSE SplitSentences(split_into_sentences(t), 1, <<>>, <<>>, 0)

IdleChunker ==
    /\ min_chunk_size = 0
    /\ max_chunk_size = 0
    /\ overlap_size = 0
    /\ text = <<>>
    /\ sentences = <<>>
    /\ i = 0
    /\ chunks = <<>>
    /\ current_chunk = <<>>
    /\ current_size = 0
    /\ overlap_buffer = <<>>
    /\ pc = "unused"

InitChunker ==
    /\ \E size \in 0..MaxChunkSize, overlap \in 0..MaxOverlap :
          /\ min_chunk_size = size - overlap
          /\ max_chunk_size = size
          /\ overlap_size = overlap
    /\ text = <<>>
    /\ sentences = <<>>
    /\ i = 0
    /\ chunks = <<>>
    /\ current_chunk = <<>>
    /\ current_size = 0
    /\ overlap_buffer = <<>>
    /\ pc = "idle"

\* split_text is called: the empty-text return, or the set-up of the loop
SplitTextCall ==
    /\ pc = "idle"
    /\ \E t \in ChunkTexts :
          /\ text' = t
          /\ IF t = <<>>
             THEN /\ pc' = "done"
                  /\ sentences' = <<>>
             ELSE /\ pc' = "loop"
                  /\ sentences' = split_into_sentences(t)
    /\ i' = 1
    /\ chunks' = <<>>
    /\ current_chunk' = <<>>
    /\ current_size' = 0
    /\ overlap_buffer' = <<>>
    /\ UNCHANGED <<min_chunk_size, max_chunk_size, overlap_size>>

\* one iteration of "for i, sentence in enumerate(sentences)"
SplitTextLoop ==
    /\ pc = "loop"
    /\ i <= Len(sentences)
    /\ LET cur  == Append(current_chunk, sentences[i])
           size == current_size + Len(sentences[i])
       IN  IF ShouldSplit(size, i, Len(sentences)) /\ cur # <<>>
           THEN /\ chunks' = Append(chunks, Join(cur))
                /\ overlap_buffer' = OverlapBuffer(cur)
                /\ current_chunk' = OverlapBuffer(cur)
                /\ current_size' = TotalLen(OverlapBuffer(cur))
           ELSE /\ chunks' = chunks
                /\ overlap_buffer' = overlap_buffer
                /\ current_chunk' = cur
                /\ current_size' = size
    /\ i' = i + 1
    /\ UNCHANGED <<min_chunk_size, max_chunk_size, overlap_size, text, sentences, pc>>

\* the loop is over: the last chunk is added and the list returned
SplitTextReturn ==
    /\ pc = "loop"
    /\ i > Len(sentences)
    /\ chunks' = WithLastChunk(chunks, current_chunk)
    /\ pc' = "done"
    /\ UNCHANGED <<min_chunk_size, max_chunk_size, overlap_size, text, sentences,
                   i, current_chunk, current_size, overlap_buffer>>

NextChunker ==
    \/ SplitTextCall /\ UNCHANGED <<score_vars, search_vars, chat_vars, other_vars, extract_vars, upload_vars>>
    \/ SplitTextLoop /\ UNCHANGED <<score_vars, search_vars, chat_vars, other_vars, extract_vars, upload_vars>>
    \/ SplitTextReturn /\ UNCHANGED <<score_vars, search_vars, chat_vars, other_vars, extract_vars, upload_vars>>

-----------------------------------------------------------------------------
(* QdrantManager.extract_keywords and calculate_keyword_score               *)
(*                                                                         *)
(* A text is given as the segmenter sees it: "words" is jieba.lcut(text),   *)
(* whose concatenation is the text; "tags" is what extract_tags and         *)
(* textrank return together (some of the words); "fails" says that the      *)
(* segmenter raises on it.  jieba is not part of the repository.            *)

Digits == {"0", "1", "2", "3", "4", "5", "6", "7", "8", "9"}

\* characters for which str.isdigit() holds although int() rejects them
SuperscriptDigits == {"SUP2"}

Latin == {"a", "b", "c", "d", "e", "f", "g", "h", "i", "j", "k", "l", "m",
          "n", "o", "p", "q", "r", "s", "t", "u", "v", "w", "x", "y", "z",
          "A", "B", "C", "D", "E", "F", "G", "H", "I", "J", "K", "L", "M",
          "N", "O", "P", "Q", "R", "S", "T", "U", "V", "W", "X", "Y", "Z"}

\* the character lists of the five entity rules
NameChars == {<<"U7A0B">>, <<"U674E">>, <<"U5F20">>, <<"U738B">>, <<"U5218">>,
    <<"U9648">>, <<"U6768">>, <<"U9EC4">>, <<"U8D75">>, <<"U5468">>, <<"U5434">>,
    <<"U90D1">>, <<"U5B59">>, <<"U9A6C">>, <<"U6731">>, <<"U80E1">>, <<"U6797">>,
    <<"U90ED">>, <<"U4F55">>, <<"U9AD8">>}
PlaceChars == {<<"U5E02">>, <<"U533A">>, <<"U53BF">>, <<"U9547">>, <<"U6751">>,
    <<"U8DEF">>, <<"U8857">>, <<"U5DF7">>, <<"U697C">>, <<"U9662">>, <<"U56ED">>,
    <<"U9986">>, <<"U5E97">>, <<"U5382">>, <<"U7AD9">>, <<"U573A">>}
TimeWords == {<<"U5E74">>, <<"U6708">>, <<"U65E5">>, <<"U65F6">>, <<"U5206">>,
    <<"U79D2">>, <<"U5929">>, <<"U5468">>, <<"U661F", "U671F">>, <<"U65E9", "U4E0A">>,
    <<"U4E2D", "U5348">>, <<"U4E0B", "U5348">>, <<"U665A", "U4E0A">>,
    <<"U51CC", "U6668">>}
MeasureChars == {<<"U4E2A">>, <<"U53EA">>, <<"U6761">>, <<"U5F20">>, <<"U672C">>,
    <<"U53F0">>, <<"U8F86">>, <<"U6B21">>, <<"U56DE">>, <<"U904D">>, <<"U8D9F">>,
    <<"U987F">>, <<"U573A">>, <<"U9635">>}
VerbChars == {<<"U8BF4">>, <<"U60F3">>, <<"U770B">>, <<"U505A">>, <<"U8D70">>,
    <<"U8DD1">>, <<"U8DF3">>, <<"U5531">>, <<"U54ED">>, <<"U7B11">>, <<"U5403">>,
    <<"U559D">>, <<"U7761">>, <<"U9192">>, <<"U6B7B">>, <<"U6D3B">>}

\* any(c in word for c in list)
ContainsAny(word, list) == \E c \in list : Contains(word, c)

\* the words the loop over jieba.lcut(text) adds
RuleWord(word) ==
    \/ Len(word) >= 2 /\ ContainsAny(word, NameChars)
    \/ ContainsAny(word, PlaceChars)
    \/ ContainsAny(word, TimeWords)
    \/ ContainsAny(word, MeasureChars)
    \/ Len(word) >= 2 /\ ContainsAny(word, VerbChars)

\* re.findall of a character class repeated: the maximal runs, from character k
RECURSIVE ScanRuns(_, _, _, _, _)
ScanRuns(t, class, k, current, acc) ==
    IF k > Len(t)
    THEN IF current # <<>> THEN acc \cup {current} ELSE acc
    ELSE IF t[k] \in class
         THEN ScanRuns(t, class, k + 1, Append(current, t[k]), acc)
         ELSE ScanRuns(t, class, k + 1, <<>>,
                       IF current # <<>> THEN acc \cup {current} ELSE acc)

\* re.findall of the character class not repeated: every character on its own
SingleCharacters(t, class) ==
    {<<t[k]>> : k \in {m \in 1..Len(t) : t[m] \in class}}

\* re.findall(r'\d+', text) and re.findall(r'[a-zA-Z]+', text), as a set
Runs(t, class) == ScanRuns(t, class, 1, <<>>, {})

\* str.isdigit()
isdigit(k) == k # <<>> /\ \A n \in 1..Len(k) : k[n] \in Digits \cup SuperscriptDigits

\* int(k) returns (otherwise it raises ValueError)
IntParses(k) == k # <<>> /\ \A n \in 1..Len(k) : k[n] \in Digits

DigitValue(c) ==
    LET order == <<"0", "1", "2", "3", "4", "5", "6", "7", "8", "9">>
    IN  (CHOOSE n \in 1..10 : order[n] = c) - 1

\* int(k), for a k that parses
RECURSIVE int(_)
int(k) ==
    IF k = <<>> THEN 0
    ELSE 10 * int(SubSeq(k, 1, Len(k) - 1)) + DigitValue(k[Len(k)])

\* the keyword set without the final filter on the length
UnfilteredKeywords(txt) ==
    IF txt.fails THEN {}
    ELSE LET whole == Join(txt.words)
         IN  txt.tags
             \cup {txt.words[n] : n \in {m \in 1..Len(txt.words) : RuleWord(txt.words[m])}}
             \cup Runs(whole, Digits)
             \cup Runs(whole, Latin)

\* the set the returned list is made from
extract_keywords(txt) ==
    IF txt.fails THEN {}
    ELSE LET whole    == Join(txt.words)
             keywords == txt.tags
                         \cup {txt.words[n] : n \in {m \in 1..Len(txt.words) : RuleWord(txt.words[m])}}
                         \cup Runs(whole, Digits)
                         \cup Runs(whole, Latin)
         IN  {k \in keywords : Len(k) >= 2 \/ isdigit(k)}

\* the partial-match branch: some text keyword contains kw or is contained in it
PartialMatch(kw, text_keywords) ==
    \E tk \in text_keywords : Contains(tk, kw) \/ Contains(kw, tk)

\* the numeric loop over the text keywords in their iteration order, from
\* element k on: "match", "none", or "raise" when int() rejects a string
RECURSIVE NumericMatch(_, _, _)
NumericMatch(kw, order, k) ==
    IF k > Len(order) THEN "none"
    ELSE IF isdigit(order[k])
         THEN IF ~IntParses(kw) \/ ~IntParses(order[k]) THEN "raise"
              ELSE IF Abs(int(kw) - int(order[k])) <= 1 THEN "match"
              ELSE NumericMatch(kw, order, k + 1)
         ELSE NumericMatch(kw, order, k + 1)

\* what one query keyword adds to matches, in tenths; -1 when it raises
KeywordMatches(kw, text_keywords, order) ==
    LET first == IF kw \in text_keywords THEN 10
                 ELSE IF Len(kw) >= 3 /\ PartialMatch(kw, text_keywords) THEN 5
                 ELSE 0
        numeric == IF isdigit(kw) THEN NumericMatch(kw, order, 1) ELSE "none"
    IN  IF numeric = "raise" THEN -1
        ELSE first + (IF numeric = "match" THEN 8 ELSE 0)

\* the loop over query_keywords (qks) from element k on: matches in tenths, or -1
RECURSIVE MatchLoop(_, _, _, _, _)
MatchLoop(qks, k, text_keywords, order, matches) ==
    IF k > Len(qks) THEN matches
    ELSE LET m == KeywordMatches(qks[k], text_keywords, order)
         IN  IF m = -1 THEN -1
             ELSE MatchLoop(qks, k + 1, text_keywords, order, matches + m)

\* matches / len(query_keywords) without the cap
Unnormalised(matches, n) == Rat(matches, 10 * n)

\* min(matches / len(query_keywords), 1.0), matches in tenths
Normalised(matches, n) == RMin(Rat(matches, 10 * n), One)

\* the body after the guard; "error" is the except branch (it logs and
\* returns 0.0), taken on a ValueError of int() or a ZeroDivisionError
ScoreBody(qks, txt, order) ==
    LET matches == MatchLoop(qks, 1, extract_keywords(txt), order, 0)
    IN  IF matches = -1 \/ Len(qks) = 0
        THEN [value |-> Zero, error |-> TRUE]
        ELSE [value |-> Normalised(matches, Len(qks)), error |-> FALSE]

\* calculate_keyword_score without its first two lines
UnguardedKeywordScore(qks, txt, order) ==
    ScoreBody(qks, txt, order)

\* order: the iteration order of set(self.extract_keywords(text))
calculate_keyword_score(qks, txt, order) ==
    IF qks = <<>>
    THEN [value |-> Zero, error |-> FALSE]
    ELSE ScoreBody(qks, txt, order)

\* the words of the texts handed to the scorer: "1", "2", superscript two
\* and "xyz" (adjacent digit or letter words run together: "1" "2" is "12")
KeywordWords ==
    {<<"1">>, <<"2">>, <<"SUP2">>, <<"x", "y", "z">>}

TextsOf(wordSeqs) ==
    {[words |-> w, tags |-> t, fails |-> FALSE] :
        w \in wordSeqs, t \in SUBSET KeywordWords}

\* the texts handed to the scorer: every word sequence with every choice of
\* tags among its words, and a text the segmenter fails on
KeywordTexts ==
    {txt \in TextsOf(SeqsUpTo(KeywordWords, MaxWords)) :
        txt.tags \subseteq {txt.words[n] : n \in 1..Len(txt.words)}}
    \cup {[words |-> <<>>, tags |-> {}, fails |-> TRUE]}

QueryKeywordLists == SeqsUpTo(KeywordWords, MaxQueryKeywords)

IdleScore ==
    /\ score_query_keywords = <<>>
    /\ score_text = [words |-> <<>>, tags |-> {}, fails |-> FALSE]
    /\ score_result = [value |-> Zero, error |-> FALSE]
    /\ score_pc = "idle"

\* the arguments of one call
InitScore ==
    /\ score_query_keywords \in QueryKeywordLists
    /\ score_text \in KeywordTexts
    /\ score_result = [value |-> Zero, error |-> FALSE]
    /\ score_pc = "call"

\* calculate_keyword_score(query_keywords, text) runs and returns
CalculateKeywordScore ==
    /\ score_pc = "call"
    /\ \E order \in Orders(extract_keywords(score_text)) :
          score_result' = calculate_keyword_score(score_query_keywords, score_text, order)
    /\ score_pc' = "done"
    /\ UNCHANGED <<score_query_keywords, score_text>>

NextScore ==
    CalculateKeywordScore /\ UNCHANGED <<chunker_vars, search_vars, chat_vars, other_vars, extract_vars, upload_vars>>

-----------------------------------------------------------------------------
(* QdrantManager.extract_keywords called on its own *)

\* the words of the texts handed to extract_keywords: "1", "x", U+8001 U+738B
\* (a surname character in second place), U+738B U+4E94 (a surname character
\* first), U+738B (a surname character alone), U+5929 (a time word of one
\* character), U+5267 U+573A (a place word), U+4F60 U+597D (no rule applies)
ExtractWords ==
    {<<"1">>, <<"x">>, <<"U8001", "U738B">>, <<"U738B", "U4E94">>, <<"U738B">>,
     <<"U5929">>, <<"U5267", "U573A">>, <<"U4F60", "U597D">>}

\* the texts handed to extract_keywords: every word sequence with every choice
\* of tags among its words, and a text the segmenter fails on
ExtractTexts ==
    {txt \in [words : SeqsUpTo(ExtractWords, MaxWords), tags : SUBSET ExtractWords,
              fails : {FALSE}] :
        txt.tags \subseteq {txt.words[n] : n \in 1..Len(txt.words)}}
    \cup {[words |-> <<>>, tags |-> {}, fails |-> TRUE]}

IdleExtract ==
    /\ ek_text = [words |-> <<>>, tags |-> {}, fails |-> FALSE]
    /\ ek_keywords = <<>>
    /\ ek_pc = "unused"

\* the argument of one call
InitExtract ==
    /\ ek_text \in ExtractTexts
    /\ ek_keywords = <<>>
    /\ ek_pc = "call"

\* extract_keywords(text) runs and returns the list made from the set, in one
\* of the set's iteration orders ([] from the except branch)
ExtractKeywords ==
    /\ ek_pc = "call"
    /\ \E order \in Orders(extract_keywords(ek_text)) : ek_keywords' = order
    /\ ek_pc' = "done"
    /\ UNCHANGED ek_text

NextExtract ==
    ExtractKeywords /\ UNCHANGED <<chunker_vars, score_vars, search_vars, chat_vars, other_vars, upload_vars>>

-----------------------------------------------------------------------------
(* QdrantManager.hybrid_search                                              *)
(*                                                                         *)
(* A point of the index is [id, score, text]: id is its rank in the answer  *)
(* of client.search (the code's point.id is a UUID; the rank names the      *)
(* point the same way and records the candidate order), score its vector    *)
(* similarity, text its payload["text"].                                    *)

\* vector_score * vector_weight + keyword_score * keyword_weight, weights swapped
SwappedWeightsScore(vs, ks, vw, kw) == RAdd(RMul(vs, kw), RMul(ks, vw))

\* hybrid_score
HybridScore(vs, ks, vw, kw) == RAdd(RMul(vs, vw), RMul(ks, kw))

\* the result dictionary built for one point
ScoredResult(point, ks, vw, kw) ==
    [id             |-> point.id,
     hybrid_score   |-> HybridScore(point.score, ks, vw, kw),
     vector_score   |-> point.score,
     keyword_score  |-> ks,
     text           |-> point.text]

\* x put before the first element it does not rank below: equal scores end up
\* in reverse input order
InsertBeforeEqual(sorted, x) ==
    LET before == {n \in 1..Len(sorted) : RLe(sorted[n].hybrid_score, x.hybrid_score)}
        at == IF before = {} THEN Len(sorted) + 1
              ELSE CHOOSE n \in before : \A m \in before : n <= m
    IN  SubSeq(sorted, 1, at - 1) \o <<x>> \o SubSeq(sorted, at, Len(sorted))

RECURSIVE SortReversingTies(_)
SortReversingTies(results) ==
    IF results = <<>> THEN <<>>
    ELSE InsertBeforeEqual(SortReversingTies(SubSeq(results, 1, Len(results) - 1)),
                           results[Len(results)])

\* x put behind every element with a score >= its own (list.sort is stable,
\* also with reverse=True)
InsertStable(sorted, x) ==
    LET lower == {n \in 1..Len(sorted) : RLt(sorted[n].hybrid_score, x.hybrid_score)}
        at == IF lower = {} THEN Len(sorted) + 1
              ELSE CHOOSE n \in lower : \A m \in lower : n <= m
    IN  SubSeq(sorted, 1, at - 1) \o <<x>> \o SubSeq(sorted, at, Len(sorted))

\* hybrid_results.sort(key=lambda x: x["hybrid_score"], reverse=True)
RECURSIVE SortByHybridScore(_)
SortByHybridScore(results) ==
    IF results = <<>> THEN <<>>
    ELSE InsertStable(SortByHybridScore(SubSeq(results, 1, Len(results) - 1)),
                      results[Len(results)])

\* the filter with a strict comparison
FilterAboveThreshold(results, threshold) ==
    SelectSeq(results, LAMBDA r : RLt(threshold, r.hybrid_score))

\* [r for r in hybrid_results if r["hybrid_score"] >= score_threshold]
FilterLowScores(results, threshold) ==
    SelectSeq(results, LAMBDA r : RLe(threshold, r.hybrid_score))

\* results[:k + 1]
SliceOneMore(results, k) ==
    LET stop == IF k + 1 >= 0 THEN k + 1 ELSE Len(results) + k + 1
    IN  SubSeq(results, 1, IF stop > Len(results) THEN Len(results) ELSE stop)

\* results[:k], a negative k counting from the end
Slice(results, k) ==
    LET stop == IF k >= 0 THEN k ELSE Len(results) + k
    IN  SubSeq(results, 1, IF stop > Len(results) THEN Len(results) ELSE stop)

PlainText(w) == [words |-> w, tags |-> {}, fails |-> FALSE]

\* payload texts of the points: "", "1" and U+5267 U+573A (a place word)
PointTexts == {PlainText(<<>>), PlainText(<<<<"1">>>>), PlainText(<<<<"U5267", "U573A">>>>)}

\* similarities the index reports (its score_threshold is 0.0)
PointScores == {Rat(6, 10), One}

\* queries: "", "1", and the place word followed by "2"
Queries == {PlainText(<<>>), PlainText(<<<<"1">>>>),
            PlainText(<<<<"U5267", "U573A">>, <<"2">>>>)}

Thresholds == {Rat(1, 10), Rat(72, 100)}

\* [keyword_weight, vector_weight]: the defaults, and a pair not summing to 1
Weights == {[keyword |-> Rat(3, 10), vector |-> Rat(7, 10)],
            [keyword |-> One, vector |-> One]}

\* limit=1000: the number of candidates hybrid_search asks the index for
SearchLimit == 1000

\* the top_k values tried: small ones, a negative one, and one as large as
\* the number of candidates requested
TopKs == ((-1)..MaxTopK) \cup {SearchLimit}

\* what client.search answers with when the collection holds the points: at
\* most limit of them
Limited(points) == SubSeq(points, 1, Smaller(Len(points), SearchLimit))

\* the answers of the index: best vector score first
IndexAnswers ==
    {ps \in SeqsUpTo([score : PointScores, text : PointTexts], MaxPoints) :
        \A n \in 1..(Len(ps) - 1) : RLe(ps[n + 1].score, ps[n].score)}

IdleSearch ==
    /\ index_points = <<>>
    /\ query = PlainText(<<>>)
    /\ top_k = 0
    /\ score_threshold = Zero
    /\ keyword_weight = Zero
    /\ vector_weight = Zero
    /\ query_keywords = <<>>
    /\ vector_results = <<>>
    /\ point_idx = 0
    /\ hybrid_results = <<>>
    /\ filtered_results = <<>>
    /\ final_results = <<>>
    /\ search_error = FALSE
    /\ search_pc = "unused"

InitSearch ==
    /\ \E ps \in IndexAnswers :
          index_points = [n \in 1..Len(ps) |->
                             [id |-> n, score |-> ps[n].score, text |-> ps[n].text]]
    /\ query = PlainText(<<>>)
    /\ top_k = 0
    /\ score_threshold = Zero
    /\ keyword_weight = Zero
    /\ vector_weight = Zero
    /\ query_keywords = <<>>
    /\ vector_results = <<>>
    /\ point_idx = 0
    /\ hybrid_results = <<>>
    /\ filtered_results = <<>>
    /\ final_results = <<>>
    /\ search_error = FALSE
    /\ search_pc = "idle"

\* hybrid_search is called and the extraction of the query keywords is left
\* for later
HybridSearchCallWithoutKeywords ==
    /\ search_pc = "idle"
    /\ \E q \in Queries, k \in TopKs, th \in Thresholds, w \in Weights :
          /\ query' = q
          /\ top_k' = k
          /\ score_threshold' = th
          /\ keyword_weight' = w.keyword
          /\ vector_weight' = w.vector
          /\ query_keywords' = <<>>
    /\ search_pc' = "search"
    /\ UNCHANGED <<index_points, vector_results, point_idx, hybrid_results,
                   filtered_results, final_results, search_error>>

\* hybrid_search is called; its first statement extracts the query keywords
HybridSearchCall ==
    /\ search_pc = "idle"
    /\ \E q \in Queries, k \in TopKs, th \in Thresholds, w \in Weights :
          /\ query' = q
          /\ top_k' = k
          /\ score_threshold' = th
          /\ keyword_weight' = w.keyword
          /\ vector_weight' = w.vector
          /\ query_keywords' = SetToSeq(extract_keywords(q))
    /\ search_pc' = "search"
    /\ UNCHANGED <<index_points, vector_results, point_idx, hybrid_results,
                   filtered_results, final_results, search_error>>

\* self.client.search answers
ClientSearch ==
    /\ search_pc = "search"
    /\ vector_results' = Limited(index_points)
    /\ point_idx' = 1
    /\ hybrid_results' = <<>>
    /\ search_pc' = "score"
    /\ UNCHANGED <<index_points, query, top_k, score_threshold, keyword_weight,
                   vector_weight, query_keywords, filtered_results, final_results,
                   search_error>>

\* self.client.search raises: the except branch logs and returns []
ClientSearchFails ==
    /\ search_pc = "search"
    /\ search_error' = TRUE
    /\ final_results' = <<>>
    /\ search_pc' = "done"
    /\ UNCHANGED <<index_points, query, top_k, score_threshold, keyword_weight,
                   vector_weight, query_keywords, vector_results, point_idx,
                   hybrid_results, filtered_results>>

\* one iteration of "for point in vector_results"
ScorePoint ==
    /\ search_pc = "score"
    /\ point_idx <= Len(vector_results)
    /\ LET point == vector_results[point_idx]
       IN  \E order \in Orders(extract_keywords(point.text)) :
              LET keyword_score ==
                      calculate_keyword_score(query_keywords, point.text, order).value
              IN  hybrid_results' =
                      Append(hybrid_results,
                             ScoredResult(point, keyword_score, vector_weight, keyword_weight))
    /\ point_idx' = point_idx + 1
    /\ UNCHANGED <<index_points, query, top_k, score_threshold, keyword_weight,
                   vector_weight, query_keywords, vector_results, filtered_results,
                   final_results, search_error, search_pc>>

\* after the loop: sort, filter, cut to top_k, return
RankResults ==
    /\ search_pc = "score"
    /\ point_idx > Len(vector_results)
    /\ LET sorted   == SortByHybridScore(hybrid_results)
           filtered == FilterLowScores(sorted, score_threshold)
       IN  /\ hybrid_results' = sorted
           /\ filtered_results' = filtered
           /\ final_results' = Slice(filtered, top_k)
    /\ search_pc' = "done"
    /\ UNCHANGED <<index_points, query, top_k, score_threshold, keyword_weight,
                   vector_weight, query_keywords, vector_results, point_idx,
                   search_error>>

NextSearch ==
    \/ HybridSearchCall /\ UNCHANGED <<chunker_vars, score_vars, chat_vars, other_vars, extract_vars, upload_vars>>
    \/ ClientSearch /\ UNCHANGED <<chunker_vars, score_vars, chat_vars, other_vars, extract_vars, upload_vars>>
    \/ ClientSearchFails /\ UNCHANGED <<chunker_vars, score_vars, chat_vars, other_vars, extract_vars, upload_vars>>
    \/ ScorePoint /\ UNCHANGED <<chunker_vars, score_vars, chat_vars, other_vars, extract_vars, upload_vars>>
    \/ RankResults /\ UNCHANGED <<chunker_vars, score_vars, chat_vars, other_vars, extract_vars, upload_vars>>

-----------------------------------------------------------------------------
(* RAGChatBot.search_similar_documents and process_query (src/query_chat.py),*)
(* the Config object they read (src/src/config.py), and a second invocation *)
(* of hybrid_search running beside the first.                               *)

\* the attributes Config._load_from_file and Config._load_from_env set: the
\* same names on both paths, whatever the config_values module defines
ConfigAttributes ==
    {"USE_LOCAL_EMBEDDING", "OPENAI_API_KEY", "OPENAI_API_BASE", "DEEPSEEK_API_KEY",
     "DEEPSEEK_API_BASE", "QDRANT_URL", "QDRANT_API_KEY", "COLLECTION_NAME",
     "EMBEDDING_MODEL", "CHAT_MODEL", "VECTOR_DIM", "CHUNK_SIZE", "CHUNK_OVERLAP",
     "TOP_K", "MAX_TOKENS", "TEMPERATURE", "SCRIPT_DIR", "DEFAULT_SCRIPT_FILE"}

\* config.<name>: the value (the default is given for TOP_K, the one search
\* argument Config defines), or AttributeError
ConfigValue(name) ==
    IF name \in ConfigAttributes
    THEN [ok |-> TRUE, value |-> IF name = "TOP_K" THEN 3 ELSE 0]
    ELSE [ok |-> FALSE, value |-> 0]

\* the attributes the call of hybrid_search reads, in the order of evaluation
SearchArguments == <<"TOP_K", "SCORE_THRESHOLD", "KEYWORD_WEIGHT", "VECTOR_WEIGHT">>

\* the loop over vector_results as a whole (the iteration order of a text's
\* keyword set decides a score only when int() raises)
ScoreAll(qks, points, kw, vw) ==
    [n \in 1..Len(points) |->
        ScoredResult(points[n],
                     calculate_keyword_score(qks, points[n].text,
                         SetToSeq(extract_keywords(points[n].text))).value,
                     vw, kw)]

\* what hybrid_search returns from the keywords on when client.search answers
RankAll(qks, points, k, th, kw, vw) ==
    Slice(FilterLowScores(SortByHybridScore(ScoreAll(qks, points, kw, vw)), th), k)

\* hybrid_search(query, ...) as a whole, client.search answering with points
hybrid_search(q, points, k, th, kw, vw) ==
    RankAll(SetToSeq(extract_keywords(q)), Limited(points), k, th, kw, vw)

\* the defaults of hybrid_search's parameters
DefaultArguments ==
    [top_k |-> 5, score_threshold |-> Rat(5, 100),
     keyword_weight |-> Rat(3, 10), vector_weight |-> Rat(7, 10)]

\* what search_similar_documents hands to its caller: the returned list, and
\* whether an exception leaves it (its try/except catches every Exception and
\* returns [], so none does)
SearchReturn == [results |-> context_docs, raised |-> FALSE]

\* the same for hybrid_search
HybridReturn == [results |-> final_results, raised |-> FALSE]

\* the answers of the index in the runs with several invocations
SharedIndexes ==
    {<<[score |-> One, text |-> PlainText(<<<<"1">>>>)],
       [score |-> Rat(6, 10), text |-> PlainText(<<<<"U5267", "U573A">>>>)],
       [score |-> Rat(6, 10), text |-> PlainText(<<>>)]>>,
     <<[score |-> Rat(6, 10), text |-> PlainText(<<<<"1">>>>)]>>}

IdleChat ==
    /\ chat_history = <<>>
    /\ pq_pc = "unused"
    /\ pq_query = PlainText(<<>>)
    /\ context_docs = <<>>
    /\ pq_failure = "none"

\* RAGChatBot.__init__
InitChat ==
    /\ chat_history = <<>>
    /\ pq_pc = "idle"
    /\ pq_query = PlainText(<<>>)
    /\ context_docs = <<>>
    /\ pq_failure = "none"

IdleOther ==
    /\ other_pc = "unused"
    /\ other_query = PlainText(<<>>)
    /\ other_query_keywords = <<>>
    /\ other_results = <<>>

InitOther ==
    /\ other_pc = "idle"
    /\ other_query = PlainText(<<>>)
    /\ other_query_keywords = <<>>
    /\ other_results = <<>>

\* the collection, with hybrid_search not yet called
InitSharedIndex ==
    /\ \E ps \in SharedIndexes :
          index_points = [n \in 1..Len(ps) |->
                             [id |-> n, score |-> ps[n].score, text |-> ps[n].text]]
    /\ query = PlainText(<<>>)
    /\ top_k = 0
    /\ score_threshold = Zero
    /\ keyword_weight = Zero
    /\ vector_weight = Zero
    /\ query_keywords = <<>>
    /\ vector_results = <<>>
    /\ point_idx = 0
    /\ hybrid_results = <<>>
    /\ filtered_results = <<>>
    /\ final_results = <<>>
    /\ search_error = FALSE
    /\ search_pc = "idle"

\* process_query(query) is called and enters search_similar_documents
ProcessQueryCall ==
    /\ pq_pc = "idle"
    /\ \E q \in Queries : pq_query' = q
    /\ pq_pc' = "embed"
    /\ UNCHANGED <<chat_history, context_docs, pq_failure>>

\* embed_query answers; the arguments of hybrid_search are evaluated, and
\* hybrid_search runs if every attribute exists (it returns [] itself when
\* client.search raises); an AttributeError goes to the except branch, which
\* logs and returns []
EmbedQuery ==
    /\ pq_pc = "embed"
    /\ IF \A n \in 1..Len(SearchArguments) : ConfigValue(SearchArguments[n]).ok
       THEN \E answered \in BOOLEAN :
               /\ context_docs' =
                      IF answered
                      THEN hybrid_search(pq_query, index_points,
                                         ConfigValue("TOP_K").value,
                                         ConfigValue("SCORE_THRESHOLD").value,
                                         ConfigValue("KEYWORD_WEIGHT").value,
                                         ConfigValue("VECTOR_WEIGHT").value)
                      ELSE <<>>
               /\ pq_failure' = IF answered THEN "none" ELSE "index"
       ELSE /\ context_docs' = <<>>
            /\ pq_failure' = "AttributeError"
    /\ pq_pc' = "searched"
    /\ UNCHANGED <<chat_history, pq_query>>

\* embed_query raises: the except branch logs and returns []
EmbedQueryFails ==
    /\ pq_pc = "embed"
    /\ context_docs' = <<>>
    /\ pq_failure' = "embedder"
    /\ pq_pc' = "searched"
    /\ UNCHANGED <<chat_history, pq_query>>

\* the rest of process_query: without documents it reports that nothing was
\* found; otherwise the answer is generated and, if that succeeds, recorded
ProcessQueryReturn ==
    /\ pq_pc = "searched"
    /\ IF context_docs = <<>>
       THEN chat_history' = chat_history
       ELSE \E success \in BOOLEAN :
               chat_history' =
                   IF success
                   THEN Append(chat_history,
                               [query |-> pq_query, context_count |-> Len(context_docs)])
                   ELSE chat_history
    /\ pq_pc' = "idle"
    /\ pq_query' = PlainText(<<>>)
    /\ context_docs' = <<>>
    /\ pq_failure' = "none"

\* a local of this invocation after another invocation assigned its own
\* local of the same name: one buffer for all invocations
SharedAssignment(own, assigned) == assigned

\* a local of this invocation after another invocation assigned its own
\* local of the same name: every call has its own frame
LocalAssignment(own, assigned) == own

\* another invocation of hybrid_search starts (with the default arguments)
\* and extracts the keywords of its query
OtherHybridSearchCall ==
    /\ other_pc = "idle"
    /\ \E q \in Queries :
          /\ other_query' = q
          /\ other_query_keywords' = SetToSeq(extract_keywords(q))
          /\ query_keywords' =
                 LocalAssignment(query_keywords, SetToSeq(extract_keywords(q)))
    /\ other_pc' = "search"
    /\ UNCHANGED <<other_results, index_points, query, top_k, score_threshold,
                   keyword_weight, vector_weight, vector_results, point_idx,
                   hybrid_results, filtered_results, final_results, search_error,
                   search_pc>>

\* its client.search answers; it scores, ranks and returns
OtherClientSearch ==
    /\ other_pc = "search"
    /\ other_results' =
           RankAll(other_query_keywords, Limited(index_points),
                   DefaultArguments.top_k, DefaultArguments.score_threshold,
                   DefaultArguments.keyword_weight, DefaultArguments.vector_weight)
    /\ other_pc' = "done"
    /\ UNCHANGED <<other_query, other_query_keywords, search_vars>>

\* its client.search raises: it returns []
OtherClientSearchFails ==
    /\ other_pc = "search"
    /\ other_results' = <<>>
    /\ other_pc' = "failed"
    /\ UNCHANGED <<other_query, other_query_keywords, search_vars>>

NextChat ==
    \/ ProcessQueryCall /\ UNCHANGED <<chunker_vars, score_vars, search_vars, other_vars, extract_vars, upload_vars>>
    \/ EmbedQuery /\ UNCHANGED <<chunker_vars, score_vars, search_vars, other_vars, extract_vars, upload_vars>>
    \/ EmbedQueryFails /\ UNCHANGED <<chunker_vars, score_vars, search_vars, other_vars, extract_vars, upload_vars>>
    \/ ProcessQueryReturn /\ UNCHANGED <<chunker_vars, score_vars, search_vars, other_vars, extract_vars, upload_vars>>

NextOther ==
    \/ OtherHybridSearchCall /\ UNCHANGED <<chunker_vars, score_vars, chat_vars, extract_vars, upload_vars>>
    \/ OtherClientSearch /\ UNCHANGED <<chunker_vars, score_vars, chat_vars, extract_vars, upload_vars>>
    \/ OtherClientSearchFails /\ UNCHANGED <<chunker_vars, score_vars, chat_vars, extract_vars, upload_vars>>

-----------------------------------------------------------------------------
(* QdrantManager.upload_documents                                           *)
(*                                                                         *)
(* A text and a vector are named by their position in the argument lists.   *)
(* A point is [text, vector, chunk_index, call]: "call" tells the points    *)
(* this call builds from the ones the collection held before (the code      *)
(* gives every point a fresh uuid4 id, so an upsert never replaces a        *)
(* point).  The optional metadata only adds payload fields.                 *)

\* most texts, and most vectors, handed to upload_documents
MaxDocs == 3
\* largest batch_size handed to upload_documents
MaxBatchSize == 2

\* the list "points": one point per (text, vector) pair, chunk_index from 0
BuildPoints(texts, vectors) ==
    [n \in 1..Smaller(Len(texts), Len(vectors)) |->
        [text |-> texts[n], vector |-> vectors[n], chunk_index |-> n - 1,
         call |-> "this"]]

\* points[i:i + batch_size]
Batch(points, idx, size) ==
    SubSeq(points, idx + 1, Smaller(idx + size, Len(points)))

\* idx is a value of range(0, stop, step) not yet passed (a range with a
\* negative step and a start of 0 below its stop is empty)
InRange(idx, stop, step) == step > 0 /\ idx < stop

\* what the collection holds before the call: nothing, or one earlier batch
EarlierBatches ==
    {<<>>, <<<<[text |-> 0, vector |-> 0, chunk_index |-> 0, call |-> "earlier"]>>>>}

IdleUpload ==
    /\ upserted = <<>>
    /\ up_texts = <<>>
    /\ up_vectors = <<>>
    /\ up_batch_size = 0
    /\ up_points = <<>>
    /\ up_i = 0
    /\ up_result = FALSE
    /\ up_pc = "unused"

InitUpload ==
    /\ upserted \in EarlierBatches
    /\ up_texts = <<>>
    /\ up_vectors = <<>>
    /\ up_batch_size = 0
    /\ up_points = <<>>
    /\ up_i = 0
    /\ up_result = FALSE
    /\ up_pc = "idle"

\* upload_documents is called: the count check, then the points are built and
\* total_batches is computed (the ValueError of the check and the
\* ZeroDivisionError of a batch_size of 0 are caught by the except branch,
\* which returns False)
UploadCall ==
    /\ up_pc = "idle"
    /\ \E nt \in 0..MaxDocs, nv \in 0..MaxDocs, size \in (-1)..MaxBatchSize :
          /\ up_texts' = [n \in 1..nt |-> n]
          /\ up_vectors' = [n \in 1..nv |-> n]
          /\ up_batch_size' = size
          /\ IF nt # nv \/ size = 0
             THEN /\ up_points' = <<>>
                  /\ up_result' = FALSE
                  /\ up_pc' = "done"
             ELSE /\ up_points' = BuildPoints([n \in 1..nt |-> n], [n \in 1..nv |-> n])
                  /\ up_result' = FALSE
                  /\ up_pc' = "batch"
    /\ up_i' = 0
    /\ UNCHANGED upserted

\* one iteration of "for i in range(0, len(points), batch_size)": client.upsert
\* stores the batch
UpsertBatch ==
    /\ up_pc = "batch"
    /\ InRange(up_i, Len(up_points), up_batch_size)
    /\ upserted' = Append(upserted, Batch(up_points, up_i, up_batch_size))
    /\ up_i' = up_i + up_batch_size
    /\ UNCHANGED <<up_texts, up_vectors, up_batch_size, up_points, up_result, up_pc>>

\* client.upsert raises: the except branch logs and returns False
UpsertBatchFails ==
    /\ up_pc = "batch"
    /\ InRange(up_i, Len(up_points), up_batch_size)
    /\ up_result' = FALSE
    /\ up_pc' = "done"
    /\ UNCHANGED <<upserted, up_texts, up_vectors, up_batch_size, up_points, up_i>>

\* the loop is over: return True
UploadReturn ==
    /\ up_pc = "batch"
    /\ ~InRange(up_i, Len(up_points), up_batch_size)
    /\ up_result' = TRUE
    /\ up_pc' = "done"
    /\ UNCHANGED <<upserted, up_texts, up_vectors, up_batch_size, up_points, up_i>>

NextUpload ==
    \/ UploadCall /\ UNCHANGED <<chunker_vars, score_vars, search_vars, chat_vars, other_vars, extract_vars>>
    \/ UpsertBatch /\ UNCHANGED <<chunker_vars, score_vars, search_vars, chat_vars, other_vars, extract_vars>>
    \/ UpsertBatchFails /\ UNCHANGED <<chunker_vars, score_vars, search_vars, chat_vars, other_vars, extract_vars>>
    \/ UploadReturn /\ UNCHANGED <<chunker_vars, score_vars, search_vars, chat_vars, other_vars, extract_vars>>

-----------------------------------------------------------------------------
(* Properties of split_text *)

\* 0 < overlap < min_size <= max_size
ValidConfiguration ==
    /\ 0 < overlap_size
    /\ overlap_size < min_chunk_size
    /\ min_chunk_size <= max_chunk_size

\* the overlap seed the code takes from chunk k when it closes it
SeedOf(k) == Join(OverlapBuffer(split_into_sentences(chunks[k])))

\* chunk k without the seed carried over from chunk k-1
StrippedChunk(k) ==
    IF k = 1 THEN chunks[1]
    ELSE SubSeq(chunks[k], Len(SeedOf(k - 1)) + 1, Len(chunks[k]))

\* the first chunk followed by every later chunk stripped of its seed
RECURSIVE Reconstruction(_)
Reconstruction(k) ==
    IF k > Len(chunks) THEN <<>> ELSE StrippedChunk(k) \o Reconstruction(k + 1)

\* C1: under a valid configuration every chunk is the concatenation, without
\* separator, of a contiguous run of the sentences of the text, in order: no
\* sentence is truncated or split across a chunk boundary.
C1_ChunksAreSentenceRuns ==
    ValidConfiguration =>
        LET S == split_into_sentences(text)
        IN  \A k \in 1..Len(chunks) :
                \E a \in 1..Len(S) : \E b \in a..Len(S) :
                    chunks[k] = Join(SubSeq(S, a, b))

\* a finished split of several chunks, one of them made of several sentences
C1_Witness ==
    /\ pc = "done"
    /\ ValidConfiguration
    /\ Len(chunks) >= 2
    /\ \E k \in 1..Len(chunks) : Len(split_into_sentences(chunks[k])) >= 2

\* C2: under a valid configuration every chunk after the first begins with
\* the overlap seed taken from the previous chunk (the overlap_buffer the loop
\* carries after closing that chunk), and the first chunk followed by the
\* later chunks stripped of that seed is the original text.
C2_LosslessReconstruction ==
    ValidConfiguration =>
        /\ (pc = "loop" /\ chunks # <<>>) =>
               Join(overlap_buffer) = SeedOf(Len(chunks))
        /\ pc = "done" =>
               /\ \A k \in 2..Len(chunks) : IsPrefix(SeedOf(k - 1), chunks[k])
               /\ Reconstruction(1) = text

\* a finished split in which a non-empty seed and an empty seed were carried
C2_Witness ==
    /\ pc = "done"
    /\ ValidConfiguration
    /\ Len(chunks) >= 3
    /\ \E k \in 1..(Len(chunks) - 1) : SeedOf(k) # <<>>
    /\ \E k \in 1..(Len(chunks) - 1) : SeedOf(k) = <<>>

\* C3: a configuration that violates 0 < overlap < min_size <= max_size is
\* rejected: split_text fails with InvalidConfiguration and produces no chunk.
C3_InvalidConfigurationRejected ==
    ~ValidConfiguration =>
        /\ pc \in {"idle", "InvalidConfiguration"}
        /\ chunks = <<>>

\* C4: split_text returns the empty list exactly when the text is empty.
C4_EmptyIffEmptyText ==
    pc = "done" => ((chunks = <<>>) <=> (text = <<>>))

\* a non-empty text whose only sentence never closes a chunk inside the loop
C4_Witness ==
    /\ pc = "done"
    /\ text # <<>>
    /\ ValidConfiguration
    /\ Len(chunks) = 1
    /\ Len(text) < min_chunk_size

\* C14: after sentence i is appended and the buffer (overlap seed included)
\* holds L characters, the current chunk is closed if and only if
\* L >= max_size, or L >= min_size and sentence i is not the last sentence of
\* the input; the closed chunk is the buffer with sentence i.
C14_ClosingRule ==
    [][(pc = "loop" /\ i' = i + 1) =>
          LET L == Len(Join(current_chunk)) + Len(sentences[i])
          IN  /\ (chunks' # chunks) <=>
                     \/ L >= max_chunk_size
                     \/ L >= min_chunk_size /\ i < Len(sentences)
              /\ chunks' # chunks =>
                     chunks' = Append(chunks, Join(current_chunk) \o sentences[i])
              /\ chunks' = chunks =>
                     current_chunk' = Append(current_chunk, sentences[i])]_vars

\* three sentences: a chunk was closed after the first and after the second,
\* and the third, shorter than min_size, was left for the final chunk
C14_Witness ==
    /\ pc = "done"
    /\ ValidConfiguration
    /\ Len(sentences) = 3
    /\ chunks = sentences
    /\ Len(sentences[3]) < min_chunk_size

\* C15 as stated: a sentence longer than max_size becomes its own chunk: the
\* chunk that contains it contains no other sentence.
C15_OversizedSentenceAlone ==
    (ValidConfiguration /\ pc = "done") =>
        \A k \in 1..Len(chunks) :
            LET cs == split_into_sentences(chunks[k])
            IN  (\E n \in 1..Len(cs) : Len(cs[n]) > max_chunk_size) => Len(cs) = 1

\* C15 as amended: a sentence longer than max_size is never split; the chunk
\* is closed as soon as the sentence is appended, so the sentence is whole
\* and the last one of its chunk, behind whatever the buffer held; under a
\* valid configuration the buffer held fewer than min_size characters and
\* the sentence is not carried into the next chunk.
C15_OversizedSentenceClosesChunk ==
    [][(pc = "loop" /\ i' = i + 1 /\ Len(sentences[i]) > max_chunk_size) =>
          /\ chunks' = Append(chunks, Join(current_chunk) \o sentences[i])
          /\ ValidConfiguration =>
                 /\ Len(Join(current_chunk)) < min_chunk_size
                 /\ current_chunk' = <<>>]_vars

\* a returned chunk in which a sentence longer than max_size follows another
\* sentence
C15_Witness ==
    /\ pc = "done"
    /\ ValidConfiguration
    /\ \E k \in 1..Len(chunks) :
          LET cs == split_into_sentences(chunks[k])
          IN  /\ Len(cs) >= 2
              /\ Len(cs[Len(cs)]) > max_chunk_size

\* C16: when a chunk is closed, the next chunk starts with the longest run
\* of trailing whole sentences of the closed chunk, taken backward from its
\* last sentence and stopping at the first sentence that would make the
\* cumulative length exceed overlap, in original order; the seed is no
\* longer than overlap, and empty when the last sentence alone is longer.
C16_OverlapSeed ==
    [][(pc = "loop" /\ i' = i + 1 /\ chunks' # chunks) =>
          LET closed == Append(current_chunk, sentences[i])
              seed   == current_chunk'
              m      == Len(seed)
              n      == Len(closed)
          IN  /\ m <= n
              /\ seed = SubSeq(closed, n - m + 1, n)
              /\ Len(Join(seed)) <= overlap_size
              /\ m < n => Len(Join(seed)) + Len(closed[n - m]) > overlap_size
              /\ Len(closed[n]) > overlap_size => seed = <<>>
              /\ overlap_buffer' = seed
              /\ current_size' = Len(Join(seed))]_vars

\* a chunk of three sentences was just closed and its last two sentences,
\* not the first, were carried over
C16_Witness ==
    /\ pc = "loop"
    /\ ValidConfiguration
    /\ chunks # <<>>
    /\ Len(split_into_sentences(chunks[Len(chunks)])) = 3
    /\ Len(overlap_buffer) = 2
    /\ current_chunk = overlap_buffer

\* C17 as stated: under a valid configuration, when split_text emits more
\* than one chunk, the last chunk has length >= min_size.
C17_NoUndersizedTail ==
    (ValidConfiguration /\ pc = "done" /\ Len(chunks) > 1) =>
        Len(chunks[Len(chunks)]) >= min_chunk_size

\* C17 as amended: under a valid configuration, when split_text emits more
\* than one chunk, the last chunk is not a bare overlap seed: it begins with
\* the seed of the chunk before it and holds at least one sentence more,
\* ending with the last sentence of the text (it may be shorter than
\* min_size).
C17_TailHoldsNewSentence ==
    (ValidConfiguration /\ pc = "done" /\ Len(chunks) > 1) =>
        LET n    == Len(chunks)
            last == chunks[n]
            S    == split_into_sentences(text)
        IN  /\ IsPrefix(SeedOf(n - 1), last)
            /\ Len(last) > Len(SeedOf(n - 1))
            /\ Len(last) >= Len(S[Len(S)])
            /\ SubSeq(last, Len(last) - Len(S[Len(S)]) + 1, Len(last)) = S[Len(S)]

\* several chunks, the last one shorter than min_size
C17_Witness ==
    /\ pc = "done"
    /\ ValidConfiguration
    /\ Len(chunks) > 1
    /\ Len(chunks[Len(chunks)]) < min_chunk_size
    /\ SeedOf(Len(chunks) - 1) # <<>>

\* C18: under a valid configuration, for every chunk split_text emitted, let
\* N be the chunk without its overlap seed; if N is not empty,
\* split_text(N) with the same configuration yields N as its first chunk (no
\* chunk boundary falls inside N).  The returned list is split_text(text).
C18_RechunkingIdempotent ==
    (ValidConfiguration /\ pc = "done") =>
        /\ chunks = split_text(text)
        /\ \A k \in 1..Len(chunks) :
              LET N == StrippedChunk(k)
              IN  N # <<>> =>
                      /\ split_text(N) # <<>>
                      /\ split_text(N)[1] = N

\* a later chunk that carries a seed and, behind it, two new sentences
C18_Witness ==
    /\ pc = "done"
    /\ ValidConfiguration
    /\ \E k \in 2..Len(chunks) :
          /\ SeedOf(k - 1) # <<>>
          /\ Len(split_into_sentences(StrippedChunk(k))) >= 2

\* C19: split_into_sentences partitions the text: the sentences concatenated
\* in order are the text, no sentence is empty, an ending character occurs in
\* a sentence only as its last character, every sentence but possibly the
\* last ends with one, and a trailing part without ending character is the
\* final sentence.
C19_SentencesPartitionText ==
    LET S == split_into_sentences(text)
        IsEnding(c) == c \in sentence_endings
    IN  /\ pc \in {"loop", "done"} /\ text # <<>> => sentences = S
        /\ Join(S) = text
        /\ \A n \in 1..Len(S) :
              /\ S[n] # <<>>
              /\ \A j \in 1..(Len(S[n]) - 1) : ~IsEnding(S[n][j])
              /\ n < Len(S) => IsEnding(S[n][Len(S[n])])
        /\ (text # <<>> /\ ~IsEnding(text[Len(text)])) =>
              /\ S # <<>>
              /\ ~IsEnding(S[Len(S)][Len(S[Len(S)])])

\* two ending characters in a row, then a sentence, then a trailing part
C19_Witness ==
    /\ pc = "done"
    /\ Len(sentences) = 4
    /\ Len(sentences[1]) = 1
    /\ Len(sentences[2]) = 1
    /\ Len(sentences[3]) >= 2
    /\ sentences[4][Len(sentences[4])] \notin sentence_endings

\* C27: every chunk split_text emits, the last one included, holds at least
\* one sentence that no earlier chunk holds: no chunk consists solely of the
\* overlap seed carried from the previous chunk (no condition is put on the
\* configuration).
C27_NoSeedOnlyChunk ==
    [][chunks' # chunks =>
          Len(chunks'[Len(chunks')]) > Len(Join(overlap_buffer))]_vars

\* the last sentence of a chunk
LastSentence(chunk) ==
    LET S == split_into_sentences(chunk) IN S[Len(S)]

\* C28: under a valid configuration the length of every chunk minus the
\* length of its last sentence is below min_size, so a chunk is longer than
\* max_size only when its last sentence is longer than max_size - min_size.
C28_ChunkSizeBound ==
    ValidConfiguration =>
        \A k \in 1..Len(chunks) :
            /\ Len(chunks[k]) - Len(LastSentence(chunks[k])) < min_chunk_size
            /\ Len(chunks[k]) > max_chunk_size =>
                   Len(LastSentence(chunks[k])) > max_chunk_size - min_chunk_size

\* a finished split with a chunk of several sentences that is longer than
\* max_size, and a chunk that is not
C28_Witness ==
    /\ pc = "done"
    /\ ValidConfiguration
    /\ \E k \in 1..Len(chunks) :
           /\ Len(chunks[k]) > max_chunk_size
           /\ Len(split_into_sentences(chunks[k])) >= 2
    /\ \E k \in 1..Len(chunks) : Len(chunks[k]) <= max_chunk_size

\* C29: under a valid configuration every chunk split_text emits, other than
\* the last one of the returned list, has length >= min_size.
C29_InnerChunksReachMinSize ==
    ValidConfiguration =>
        \A k \in 1..Len(chunks) :
            (pc = "done" /\ k = Len(chunks)) \/ Len(chunks[k]) >= min_chunk_size

\* a finished split of three chunks, one closed at exactly min_size, the last
\* one shorter than min_size
C29_Witness ==
    /\ pc = "done"
    /\ ValidConfiguration
    /\ Len(chunks) >= 3
    /\ \E k \in 1..(Len(chunks) - 1) : Len(chunks[k]) = min_chunk_size
    /\ Len(chunks[Len(chunks)]) < min_chunk_size

-----------------------------------------------------------------------------
(* Properties of hybrid_search *)

\* hybrid_search returned the list it ranked (the except branch did not run)
Ranked == search_pc = "done" /\ ~search_error

Ids(results) == {results[n].id : n \in 1..Len(results)}

Least(a, b) == IF a <= b THEN a ELSE b

\* C5: the returned list is sorted non-increasing by hybrid_score, and two
\* results with equal hybrid_score keep the order in which the vector index
\* returned their candidates.
C5_SortedAndStable ==
    Ranked =>
        \A a, b \in 1..Len(final_results) :
            a < b =>
                /\ RLe(final_results[b].hybrid_score, final_results[a].hybrid_score)
                /\ final_results[a].hybrid_score = final_results[b].hybrid_score
                      => final_results[a].id < final_results[b].id

\* two results tie on hybrid_score although their vector and keyword scores
\* differ, and both are returned
C5_Witness ==
    /\ Ranked
    /\ \E a, b \in 1..Len(final_results) :
          /\ a < b
          /\ final_results[a].hybrid_score = final_results[b].hybrid_score
          /\ final_results[a].vector_score # final_results[b].vector_score

\* C6: a candidate is retained exactly when its hybrid_score >= score_threshold
\* (equality retains it), and no returned result is below score_threshold.
C6_ThresholdInclusive ==
    Ranked =>
        /\ Ids(filtered_results) =
              {hybrid_results[n].id : n \in
                  {m \in 1..Len(hybrid_results) :
                      RLe(score_threshold, hybrid_results[m].hybrid_score)}}
        /\ Len(filtered_results) = Cardinality(Ids(filtered_results))
        /\ \A n \in 1..Len(final_results) :
              RLe(score_threshold, final_results[n].hybrid_score)

\* a returned result whose hybrid_score is exactly the threshold, while
\* another candidate was dropped
C6_Witness ==
    /\ Ranked
    /\ \E n \in 1..Len(final_results) : final_results[n].hybrid_score = score_threshold
    /\ Len(filtered_results) < Len(hybrid_results)

\* C7: for top_k >= 0 the result is the first top_k elements of the filtered,
\* sorted list: its length is min(top_k, number retained), every retained
\* candidate left out scores no higher than every returned one, and top_k = 0
\* returns the empty list.
C7_TopKPrefix ==
    (Ranked /\ top_k >= 0) =>
        LET n == Least(top_k, Len(filtered_results))
        IN  /\ Len(final_results) = n
            /\ final_results = SubSeq(filtered_results, 1, n)
            /\ \A out \in (n + 1)..Len(filtered_results) : \A kept \in 1..n :
                  RLe(filtered_results[out].hybrid_score, final_results[kept].hybrid_score)
            /\ top_k = 0 => final_results = <<>>

\* more candidates were retained than top_k lets through
C7_Witness ==
    /\ Ranked
    /\ top_k = 1
    /\ Len(filtered_results) >= 3
    /\ Len(final_results) = 1

\* C8: every returned result is fully scored: vector_score is the score of
\* its candidate, keyword_score is calculate_keyword_score(query_keywords,
\* candidate text), and hybrid_score = vector_score * vector_weight +
\* keyword_score * keyword_weight.
C8_FullyScored ==
    Ranked =>
        \A n \in 1..Len(final_results) :
            LET r == final_results[n]
                point == vector_results[r.id]
            IN  /\ r.vector_score = point.score
                /\ r.text = point.text
                /\ \E order \in Orders(extract_keywords(point.text)) :
                      r.keyword_score =
                          calculate_keyword_score(query_keywords, point.text, order).value
                /\ r.hybrid_score =
                      RAdd(RMul(r.vector_score, vector_weight),
                           RMul(r.keyword_score, keyword_weight))

\* the example: weights 0.7 and 0.3, vector_score 0.6, keyword_score 1.0 give 0.72
C8_Witness ==
    /\ Ranked
    /\ vector_weight = Rat(7, 10)
    /\ keyword_weight = Rat(3, 10)
    /\ \E n \in 1..Len(final_results) :
          /\ final_results[n].vector_score = Rat(6, 10)
          /\ final_results[n].keyword_score = One
          /\ final_results[n].hybrid_score = Rat(72, 100)

-----------------------------------------------------------------------------
(* Properties of the retrieval calls *)

\* C11: when the embedder call or the vector-index call of a query fails,
\* the caller receives an empty result list together with a surfaced error
\* that tells the failure from a successful query with zero results, and
\* never a partial or truncated ranked list.
C11_FailureSurfaced ==
    /\ (pq_pc = "searched" /\ pq_failure \in {"embedder", "index"}) =>
           /\ SearchReturn.results = <<>>
           /\ SearchReturn.raised
    /\ (search_pc = "done" /\ search_error) =>
           /\ HybridReturn.results = <<>>
           /\ HybridReturn.raised

\* C12: a query ends without its ranked list because of an error only if the
\* embedder call or the vector-index call failed; whenever both succeed,
\* search_similar_documents returns exactly the list computed by rank over
\* the fetched candidates (for the top_k, threshold and weights of the
\* configuration).
C12_ErrorsOnlyAtBoundaries ==
    pq_pc = "searched" =>
        /\ pq_failure \in {"none", "embedder", "index"}
        /\ pq_failure = "none" =>
               \E k \in TopKs, th \in Thresholds, w \in Weights :
                   context_docs =
                       hybrid_search(pq_query, index_points, k, th, w.keyword, w.vector)

\* C13: the result of a retrieve call depends only on its query, its
\* arguments and the index contents: whatever other calls ran before it or
\* run interleaved with it, a call of hybrid_search that ranked returns
\* hybrid_search of its own query, arguments and the collection.
C13_QueryIsolation ==
    /\ Ranked =>
           final_results =
               hybrid_search(query, index_points, top_k, score_threshold,
                             keyword_weight, vector_weight)
    /\ other_pc = "done" =>
           other_results =
               hybrid_search(other_query, index_points,
                             DefaultArguments.top_k, DefaultArguments.score_threshold,
                             DefaultArguments.keyword_weight,
                             DefaultArguments.vector_weight)

\* a call returned documents while another call, of another query with other
\* keywords, ran to its end beside it, and a process_query is under way
C13_Witness ==
    /\ Ranked
    /\ final_results # <<>>
    /\ query_keywords # <<>>
    /\ other_pc = "done"
    /\ other_query # query
    /\ other_query_keywords # query_keywords
    /\ other_results # final_results
    /\ pq_pc = "searched"

\* C24 as stated: within one query the steps happen in the order embed query,
\* fetch candidates from the vector index, extract the query keywords, score
\* and rank: the query keywords are extracted only after the candidates
\* have been fetched.
C24_KeywordsAfterFetch ==
    [][query_keywords' # query_keywords => search_pc = "score"]_vars

\* C24 as amended: within one query the steps happen in the order embed query,
\* extract the query keywords, fetch candidates from the vector index, score
\* and rank: while hybrid_search waits for the index the keywords of its
\* query are already extracted and no candidate is fetched or scored; it
\* scores only candidates the index has answered with; and when the embedder
\* fails the index is not consulted.
C24_KeywordsBeforeFetch ==
    /\ search_pc = "search" =>
           /\ query_keywords = SetToSeq(extract_keywords(query))
           /\ vector_results = <<>>
           /\ hybrid_results = <<>>
    /\ search_pc = "score" =>
           /\ vector_results = Limited(index_points)
           /\ Len(hybrid_results) = point_idx - 1
           /\ \A n \in 1..Len(hybrid_results) : hybrid_results[n].id = vector_results[n].id
    /\ pq_failure = "embedder" => context_docs = <<>>

\* hybrid_search waits for the index with the keywords of its query at hand
C24_Witness ==
    /\ search_pc = "search"
    /\ query_keywords # <<>>
    /\ index_points # <<>>
    /\ vector_results = <<>>

\* C25: over-fetching: for every top_k passed to hybrid_search the number of
\* candidates requested from the vector index before fusion is larger than
\* top_k, so that a candidate outside the vector-only top_k can still be
\* promoted by its keyword score.
C25_OverFetching ==
    search_pc \in {"search", "score", "done"} => SearchLimit > top_k

\* C26: every configuration attribute the query path reads (TOP_K,
\* SCORE_THRESHOLD, KEYWORD_WEIGHT, VECTOR_WEIGHT) is defined on the Config
\* object after initialization, whichever way it was loaded, so reading the
\* configuration never fails a query.
C26_QueryAttributesDefined ==
    /\ \A n \in 1..Len(SearchArguments) : SearchArguments[n] \in ConfigAttributes
    /\ pq_pc = "searched" => pq_failure # "AttributeError"

-----------------------------------------------------------------------------
(* Properties of calculate_keyword_score *)

\* C9: calculate_keyword_score returns a value in [0.0, 1.0] for every query
\* keyword list and every text, also when several match rules accumulate on
\* one keyword and when the keyword extraction fails.
C9_ScoreInUnitInterval ==
    score_pc = "done" =>
        /\ RLe(Zero, score_result.value)
        /\ RLe(score_result.value, One)

\* a numeric keyword matched exactly and by proximity (1.0 + 0.8 on one
\* keyword), capped to 1.0
C9_Witness ==
    /\ score_pc = "done"
    /\ score_query_keywords = <<<<"1">>>>
    /\ <<"1">> \in extract_keywords(score_text)
    /\ score_result = [value |-> One, error |-> FALSE]

\* C10: with an empty query_keywords the score is 0.0 for every text, and the
\* function neither divides by zero nor raises (the except branch is not run).
C10_EmptyKeywordsScoreZero ==
    (score_pc = "done" /\ score_query_keywords = <<>>) =>
        score_result = [value |-> Zero, error |-> FALSE]

\* an empty keyword list scored against a text that has keywords
C10_Witness ==
    /\ score_pc = "done"
    /\ score_query_keywords = <<>>
    /\ extract_keywords(score_text) # {}
    /\ score_result.value = Zero

\* the contribution of one query keyword as C20 states it, in tenths: e + n
ClaimedContribution(kw, text_keywords) ==
    LET e == IF kw \in text_keywords THEN 10
             ELSE IF Len(kw) >= 3 /\ PartialMatch(kw, text_keywords) THEN 5
             ELSE 0
        n == IF /\ isdigit(kw)
                /\ \E tk \in text_keywords :
                      /\ isdigit(tk)
                      /\ IntParses(kw)
                      /\ IntParses(tk)
                      /\ Abs(int(kw) - int(tk)) <= 1
             THEN 8
             ELSE 0
    IN  e + n

RECURSIVE ClaimedMatches(_, _, _)
ClaimedMatches(qks, k, text_keywords) ==
    IF k > Len(qks) THEN 0
    ELSE ClaimedContribution(qks[k], text_keywords)
             + ClaimedMatches(qks, k + 1, text_keywords)

\* C20: each query keyword contributes e + n to total_matches (e = 1.0 for an
\* exact element of extract(text), else 0.5 for a keyword of length >= 3 that
\* contains or is contained in a text keyword, else 0; n = 0.8 for a numeric
\* keyword within 1 of a numeric text keyword, else 0), the score is
\* min(sum / |query_keywords|, 1.0), and it is 1.0 when every query keyword
\* is an exact element of extract(text).
C20_ContributionsAccumulate ==
    (score_pc = "done" /\ score_query_keywords # <<>>) =>
        LET text_keywords == extract_keywords(score_text)
            n == Len(score_query_keywords)
        IN  /\ score_result.value =
                   RMin(Rat(ClaimedMatches(score_query_keywords, 1, text_keywords), 10 * n),
                        One)
            /\ (\A k \in 1..n : score_query_keywords[k] \in text_keywords) =>
                   score_result.value = One

-----------------------------------------------------------------------------
(* Properties of extract_keywords *)

\* the terms of the returned list
Returned == {ek_keywords[n] : n \in 1..Len(ek_keywords)}

\* the words of the text
WordsOf(txt) == {txt.words[n] : n \in 1..Len(txt.words)}

\* the maximal runs of characters of a class in t: stretches of t made of the
\* class that cannot be extended on either side
MaximalRuns(t, class) ==
    {SubSeq(t, a, b) : a \in 1..Len(t), b \in 1..Len(t)}
    \cap {SubSeq(t, p[1], p[2]) :
             p \in {q \in (1..Len(t)) \X (1..Len(t)) :
                       /\ q[1] <= q[2]
                       /\ \A n \in q[1]..q[2] : t[n] \in class
                       /\ q[1] = 1 \/ t[q[1] - 1] \notin class
                       /\ q[2] = Len(t) \/ t[q[2] + 1] \notin class}}

\* C21: extract_keywords returns a collection without duplicate terms in
\* which every term has length >= 2 or consists only of digits, whatever
\* signal (tags, entity rules, digit runs, Latin runs) contributed it.
C21_KeywordsFiltered ==
    ek_pc = "done" =>
        /\ \A a, b \in 1..Len(ek_keywords) : ek_keywords[a] = ek_keywords[b] => a = b
        /\ \A a \in 1..Len(ek_keywords) :
               Len(ek_keywords[a]) >= 2 \/ isdigit(ek_keywords[a])

\* a one-digit term contributed both as a tag and as a digit run is returned
\* once, and a one-character time word the rules selected is dropped
C21_Witness ==
    /\ ek_pc = "done"
    /\ <<"1">> \in ek_text.tags
    /\ ek_keywords = <<<<"1">>>>
    /\ \E w \in WordsOf(ek_text) : RuleWord(w) /\ Len(w) = 1 /\ w \notin Returned

SelectedByOtherSignal(word, txt) ==
    \/ word \in txt.tags
    \/ ContainsAny(word, PlaceChars)
    \/ ContainsAny(word, TimeWords)
    \/ ContainsAny(word, MeasureChars)
    \/ ContainsAny(word, VerbChars)
    \/ word \in MaximalRuns(Join(txt.words), Digits)
    \/ word \in MaximalRuns(Join(txt.words), Latin)

\* C23: the name rule: a tokenized word that no other signal selects is
\* added to the keyword set if and only if its length is >= 2 and its first
\* character is one of the common-surname characters.
C23_NameRuleTestsFirstCharacter ==
    (ek_pc = "done" /\ ~ek_text.fails) =>
        \A w \in WordsOf(ek_text) :
            ~SelectedByOtherSignal(w, ek_text) =>
                (w \in Returned <=> (Len(w) >= 2 /\ <<w[1]>> \in NameChars))

-----------------------------------------------------------------------------
(* Properties of upload_documents *)

RECURSIVE Flatten(_)
Flatten(batches) ==
    IF batches = <<>> THEN <<>> ELSE Head(batches) \o Flatten(Tail(batches))

\* the points of this call that the collection holds, in the order stored
PointsOfCall == SelectSeq(Flatten(upserted), LAMBDA pt : pt.call = "this")

\* C30: upload_documents is all-or-nothing: when it returns True every
\* (text, vector) pair was upserted exactly once, in input order and in
\* batches of at most batch_size; when it returns False (count mismatch or a
\* failed batch) no point of that call has been upserted into the collection.
C30_UploadAllOrNothing ==
    up_pc = "done" =>
        /\ up_result =>
               /\ PointsOfCall = BuildPoints(up_texts, up_vectors)
               /\ \A b \in 1..Len(upserted) :
                      (\E n \in 1..Len(upserted[b]) : upserted[b][n].call = "this") =>
                          Len(upserted[b]) <= up_batch_size
        /\ ~up_result => PointsOfCall = <<>>

-----------------------------------------------------------------------------
(* Specifications *)

\* the chunker alone
ChunkInit ==
    InitChunker /\ IdleScore /\ IdleSearch /\ IdleChat /\ IdleOther /\ IdleExtract /\ IdleUpload
SpecChunk == ChunkInit /\ [][NextChunker]_vars

\* the keyword scorer alone
ScoreInit ==
    IdleChunker /\ InitScore /\ IdleSearch /\ IdleChat /\ IdleOther /\ IdleExtract /\ IdleUpload
SpecScore == ScoreInit /\ [][NextScore]_vars

\* hybrid_search alone
SearchInit ==
    IdleChunker /\ IdleScore /\ InitSearch /\ IdleChat /\ IdleOther /\ IdleExtract /\ IdleUpload
SpecSearch == SearchInit /\ [][NextSearch]_vars

\* the retrieval calls of a chat session: process_query, a direct call of
\* hybrid_search and another one beside it, on one collection
RetrieveInit ==
    IdleChunker /\ IdleScore /\ InitSharedIndex /\ InitChat /\ InitOther /\ IdleExtract /\ IdleUpload
NextRetrieve == NextSearch \/ NextChat \/ NextOther
SpecRetrieve == RetrieveInit /\ [][NextRetrieve]_vars

\* extract_keywords alone
ExtractInit ==
    IdleChunker /\ IdleScore /\ IdleSearch /\ IdleChat /\ IdleOther /\ InitExtract /\ IdleUpload
SpecExtract == ExtractInit /\ [][NextExtract]_vars

\* upload_documents alone
UploadInit ==
    IdleChunker /\ IdleScore /\ IdleSearch /\ IdleChat /\ IdleOther /\ IdleExtract /\ InitUpload
SpecUpload == UploadInit /\ [][NextUpload]_vars

\* any one of the six
Init == ChunkInit \/ ScoreInit \/ SearchInit \/ RetrieveInit \/ ExtractInit \/ UploadInit
Next ==
    NextChunker \/ NextScore \/ NextSearch \/ NextChat \/ NextOther \/ NextExtract \/ NextUpload
Spec == Init /\ [][Next]_vars

=============================================================================
